---- MODULE Spec2Model ----
(***************************************************************************)
(* Model of metadata_sync: the sidecar manifest (.metadata.json) written   *)
(* by write_json_metadata and verified by check_json_metadata, and the     *)
(* dataset-identifier resolution of                                        *)
(* GeophysicsSurveyMetadataRecordCreator.populate_template_values.         *)
(***************************************************************************)
EXTENDS Integers, Sequences, FiniteSets, TLC

\* ------------------------------------------------------------------ bounds
\* The file names that can occur in the dataset folder: the first MaxNames of
\* 1.nc, 1.tmp, 2.nc, 2.tmp, 3.nc, ...
MaxNames == 3

\* ------------------------------------------------------- values and inputs
None == "<None>"                \* Python None

\* Extensions that occur in the modelled folder.
Exts == {".nc", ".tmp"}

\* os.path.splitext: a file name is stem + ext.
NameOf(i) == [stem |-> (i + 1) \div 2,
              ext  |-> IF i % 2 = 1 THEN ".nc" ELSE ".tmp"]
Names == {NameOf(i) : i \in 1..MaxNames}

\* The bytes of a file: two files have equal or different bytes.
Contents == {"x", "y"}
Absent   == "absent"

\* metadata_json.py:19
DEFAULT_EXCLUDED_EXTENSIONS == <<".bck", ".md5", ".uuid", ".json", ".tmp">>

Range(s) == {s[i] : i \in DOMAIN s}

\* The excluded_extensions arguments tried: None (the default list) and a
\* list that excludes none of the extensions in the folder.
ExclArgs == {<<None>>, <<".bck">>}

\* uuid arguments tried.
UuidArgs == {"u1", "u2"}

\* uuid arguments a snapshot is captured with; a verification is tried with
\* the same one and with another (UuidArgs).
CaptureUuidArgs == {"u1"}

\* A path is absolute or relative to the working directory.
cwd == <<"data">>
AbsFolder == [abs |-> TRUE,  segs |-> <<"data", "ds">>]
RelFolder == [abs |-> FALSE, segs |-> <<"ds">>]
FolderArgs == {AbsFolder, RelFolder}

\* os.path.abspath
abspath(p) == IF p.abs THEN p ELSE [abs |-> TRUE, segs |-> cwd \o p.segs]

\* hashlib.md5 over the file's blocks: a digest determined by the bytes.
hash_bytestr_iter(content) == <<"md5", content>>

\* `excluded_extensions or DEFAULT_EXCLUDED_EXTENSIONS`
effective_exclusions(excl) ==
    IF excl = <<None>> \/ excl = <<>> THEN DEFAULT_EXCLUDED_EXTENSIONS ELSE excl

\* Python string order of two file names (digits, then '.', 'n' < 't').
ExtRank(e) == IF e = ".nc" THEN 1 ELSE 2
NameLess(a, b) == \/ a.stem < b.stem
                  \/ a.stem = b.stem /\ ExtRank(a.ext) < ExtRank(b.ext)

\* sorted(md5_dict.keys())
RECURSIVE sorted(_)
sorted(S) ==
    IF S = {} THEN <<>>
    ELSE LET m == CHOOSE x \in S : \A y \in S \ {x} : NameLess(x, y)
         IN  <<m>> \o sorted(S \ {m})

\* All orders in which a directory listing (and the dict built from it) can
\* enumerate the names of S.
Orders(S) == {o \in [1..Cardinality(S) -> S] : \A i, j \in 1..Cardinality(S) : o[i] = o[j] => i = j}

\* ------------------------------------------------------------------- state
VARIABLES
    files,      \* the dataset folder: Names -> Contents \cup {Absent}
    sidecar,    \* the persisted .metadata.json
    captured,   \* the last write_json_metadata call: its arguments and the
                \* folder as it was
    result,     \* outcome of a check_json_metadata call, until its caller
                \* has dealt with it
    netcdf_dataset,   \* the dataset's attribute store: attribute -> value
    metadata_object,  \* the record creator's merged tree: category -> fields
    warnings,         \* messages logged at warning level or above
    doi_minting_mode, \* the record creator's minting mode
    run,              \* the history of the current run
    xml_output,       \* the record written to xml_output_path, or None
    xml2nc_mapping,   \* the <attribute name, metadata path> list
    xml_metadata,     \* the catalogue record: metadata path -> value
    fragments,        \* source fragments still to be merged into the tree
    merged,           \* source fragments merged into the tree, in order
    pc                \* the position in the current run

manifest_vars == <<files, captured, result>>
acdd_vars     == <<xml2nc_mapping, xml_metadata>>
merge_vars    == <<fragments, merged>>
other_vars    == <<acdd_vars, merge_vars>>
record_vars   == <<netcdf_dataset, metadata_object, warnings, doi_minting_mode,
                   run, xml_output, other_vars, pc>>
vars == <<files, sidecar, captured, result, record_vars>>

NoSidecar == [exists |-> FALSE]
NoResult  == [outcome |-> "none"]
NoCall    == [called |-> FALSE]
\* The arguments of a call.
Call(uuid, dataset_folder, excl) ==
    [uuid |-> uuid, dataset_folder |-> dataset_folder,
     excluded_extensions |-> excl]

Present(f) == {n \in Names : f[n] # Absent}

\* get_md5sums over get_filtered_md5sum_dict's file list: basename -> digest
get_filtered_md5sum_dict(f, excluded_extensions) ==
    [n \in {m \in Present(f) : m.ext \notin Range(excluded_extensions)}
        |-> hash_bytestr_iter(f[n])]

\* The metadata_dict that write_json_metadata dumps.
metadata_dict_of(uuid, dataset_folder, excl, f) ==
    LET md5_dict == get_filtered_md5sum_dict(f, effective_exclusions(excl))
        names    == sorted(DOMAIN md5_dict)
    IN  [exists      |-> TRUE,
         uuid        |-> uuid,
         folder_path |-> abspath(dataset_folder),
         files       |-> [i \in DOMAIN names |->
                            [file |-> names[i], md5 |-> md5_dict[names[i]]]]]

write_json_metadata(uuid, dataset_folder, excl) ==
    /\ sidecar'  = metadata_dict_of(uuid, dataset_folder, excl, files)
    /\ captured' = [called |-> TRUE, call |-> Call(uuid, dataset_folder, excl),
                    files |-> files]
    /\ result'   = NoResult
    /\ UNCHANGED <<files, record_vars>>

\* json.load of the sidecar; fails when write_json_metadata never ran.
read_json_metadata == sidecar

\* Variants of file_report that differ from it by one slip each.
file_report_no_rename(saved_filename, saved_md5sum, calculated_md5_dict, order) ==
    IF saved_filename \notin DOMAIN calculated_md5_dict
    THEN <<[kind |-> "missing", file |-> saved_filename]>>
    ELSE IF saved_md5sum # calculated_md5_dict[saved_filename]
         THEN <<[kind |-> "modified", file |-> saved_filename,
                 from |-> saved_md5sum,
                 to |-> calculated_md5_dict[saved_filename]]>>
         ELSE <<>>

file_report_swap_as_rename(saved_filename, saved_md5sum, calculated_md5_dict, order) ==
    LET new_filenames ==
            SelectSeq(order, LAMBDA n : calculated_md5_dict[n] = saved_md5sum)
    IN  IF saved_filename \in DOMAIN calculated_md5_dict
           /\ saved_md5sum = calculated_md5_dict[saved_filename]
        THEN <<>>
        ELSE IF new_filenames # <<>>
             THEN <<[kind |-> "renamed", file |-> saved_filename,
                     to |-> new_filenames[1]]>>
             ELSE IF saved_filename \in DOMAIN calculated_md5_dict
                  THEN <<[kind |-> "modified", file |-> saved_filename,
                          from |-> saved_md5sum,
                          to |-> calculated_md5_dict[saved_filename]]>>
                  ELSE <<[kind |-> "missing", file |-> saved_filename]>>

file_report_skip_missing(saved_filename, saved_md5sum, calculated_md5_dict, order) ==
    IF saved_filename \notin DOMAIN calculated_md5_dict
    THEN LET new_filenames ==
                 SelectSeq(order, LAMBDA n : calculated_md5_dict[n] = saved_md5sum)
         IN  IF new_filenames # <<>>
             THEN <<[kind |-> "renamed", file |-> saved_filename,
                     to |-> new_filenames[1]]>>
             ELSE <<>>
    ELSE IF saved_md5sum # calculated_md5_dict[saved_filename]
         THEN <<[kind |-> "modified", file |-> saved_filename,
                 from |-> saved_md5sum,
                 to |-> calculated_md5_dict[saved_filename]]>>
         ELSE <<>>

file_report_no_modified(saved_filename, saved_md5sum, calculated_md5_dict, order) ==
    IF saved_filename \notin DOMAIN calculated_md5_dict
    THEN LET new_filenames ==
                 SelectSeq(order, LAMBDA n : calculated_md5_dict[n] = saved_md5sum)
         IN  IF new_filenames # <<>>
             THEN <<[kind |-> "renamed", file |-> saved_filename,
                     to |-> new_filenames[1]]>>
             ELSE <<[kind |-> "missing", file |-> saved_filename]>>
    ELSE <<>>

\* One pass of the loop body over a stored entry (metadata_json.py:160-173).
\* `order` is the order in which calculated_md5_dict enumerates its items.
file_report(saved_filename, saved_md5sum, calculated_md5_dict, order) ==
    IF saved_filename \notin DOMAIN calculated_md5_dict
    THEN LET new_filenames ==
                 SelectSeq(order, LAMBDA n : calculated_md5_dict[n] = saved_md5sum)
         IN  IF new_filenames # <<>>
             THEN <<[kind |-> "renamed", file |-> saved_filename,
                     to |-> new_filenames[1]]>>
             ELSE <<[kind |-> "missing", file |-> saved_filename]>>
    ELSE IF saved_md5sum # calculated_md5_dict[saved_filename]
         THEN <<[kind |-> "modified", file |-> saved_filename,
                 from |-> saved_md5sum,
                 to |-> calculated_md5_dict[saved_filename]]>>
         ELSE <<>>

\* saved_md5_dict, the dict rebuilt from the stored list of entries.
saved_md5_dict(metadata_dict) ==
    [n \in {metadata_dict.files[i].file : i \in DOMAIN metadata_dict.files} |->
        metadata_dict.files[CHOOSE i \in DOMAIN metadata_dict.files :
                                metadata_dict.files[i].file = n].md5]

\* The loop over saved_md5_dict.items(). `saved_order` is the order in which
\* that dict enumerates its items: it depends on the interpreter (hash order
\* or insertion order), so every order is possible.
RECURSIVE files_report(_, _, _, _)
files_report(saved_order, saved, calculated_md5_dict, order) ==
    IF saved_order = <<>> THEN <<>>
    ELSE file_report(Head(saved_order), saved[Head(saved_order)],
                     calculated_md5_dict, order)
         \o files_report(Tail(saved_order), saved, calculated_md5_dict, order)

\* A variant of report_list that also reports the current files the stored
\* snapshot does not name.
report_list_with_additions(metadata_dict, uuid, dataset_folder, excl, f, order, saved_order) ==
    LET calculated == get_filtered_md5sum_dict(f, effective_exclusions(excl))
        stored == {metadata_dict.files[i].file : i \in DOMAIN metadata_dict.files}
        extra  == sorted(DOMAIN calculated \ stored)
    IN  (IF metadata_dict.uuid # uuid
         THEN <<[kind |-> "uuid", from |-> metadata_dict.uuid, to |-> uuid]>>
         ELSE <<>>)
        \o (IF metadata_dict.folder_path # dataset_folder
            THEN <<[kind |-> "folder", from |-> metadata_dict.folder_path,
                    to |-> dataset_folder]>>
            ELSE <<>>)
        \o files_report(saved_order, saved_md5_dict(metadata_dict), calculated, order)
        \o [i \in DOMAIN extra |-> [kind |-> "missing", file |-> extra[i]]]

\* report_list as built by check_json_metadata (metadata_json.py:142-173).
report_list(metadata_dict, uuid, dataset_folder, excl, f, order, saved_order) ==
    (IF metadata_dict.uuid # uuid
     THEN <<[kind |-> "uuid", from |-> metadata_dict.uuid, to |-> uuid]>>
     ELSE <<>>)
    \o (IF metadata_dict.folder_path # dataset_folder
        THEN <<[kind |-> "folder", from |-> metadata_dict.folder_path,
                to |-> dataset_folder]>>
        ELSE <<>>)
    \o files_report(saved_order, saved_md5_dict(metadata_dict),
                    get_filtered_md5sum_dict(f, effective_exclusions(excl)),
                    order)

\* A variant of verdict that looks at the per-file entries only.
verdict_files_only(report) ==
    IF SelectSeq(report, LAMBDA e : e.kind \notin {"uuid", "folder"}) # <<>>
    THEN [outcome |-> "raised", message |-> report]
    ELSE [outcome |-> "ok", message |-> <<>>]

\* The verdict: raise Exception('\n'.join(report_list)) or return.
verdict(report) ==
    IF report # <<>> THEN [outcome |-> "raised", message |-> report]
    ELSE [outcome |-> "ok", message |-> <<>>]

\* A variant of check_json_metadata that refreshes the sidecar when it finds
\* drift.
check_json_metadata_refreshing(uuid, dataset_folder, excl, order, saved_order) ==
    /\ result' =
         IF ~read_json_metadata.exists
         THEN [outcome |-> "ioerror", report |-> <<>>, message |-> <<>>,
               call |-> Call(uuid, dataset_folder, excl)]
         ELSE LET report == report_list(read_json_metadata, uuid,
                                        dataset_folder, excl, files, order,
                                        saved_order)
              IN  [outcome |-> verdict(report).outcome,
                   report  |-> report,
                   message |-> verdict(report).message,
                   call    |-> Call(uuid, dataset_folder, excl)]
    /\ sidecar' = IF read_json_metadata.exists
                  THEN metadata_dict_of(uuid, dataset_folder, excl, files)
                  ELSE sidecar
    /\ UNCHANGED <<files, captured, record_vars>>

check_json_metadata(uuid, dataset_folder, excl, order, saved_order) ==
    /\ result' =
         IF ~read_json_metadata.exists
         THEN [outcome |-> "ioerror", report |-> <<>>, message |-> <<>>,
               call |-> Call(uuid, dataset_folder, excl)]
         ELSE LET report == report_list(read_json_metadata, uuid,
                                        dataset_folder, excl, files, order,
                                        saved_order)
              IN  [outcome |-> verdict(report).outcome,
                   report  |-> report,
                   message |-> verdict(report).message,
                   call    |-> Call(uuid, dataset_folder, excl)]
    /\ UNCHANGED <<files, sidecar, captured, record_vars>>

\* ------------------------------------------- changes to the folder's files
Changed(f) ==
    /\ result = NoResult
    /\ files' = f
    /\ UNCHANGED <<sidecar, captured, result, record_vars>>

Rename ==
    \E old \in Present(files), new \in Names \ Present(files) :
        Changed([files EXCEPT ![old] = Absent, ![new] = files[old]])

\* Two files are renamed to each other's names.
Swap ==
    \E a \in Present(files), b \in Present(files) :
        /\ NameLess(a, b)
        /\ files[a] # files[b]
        /\ Changed([files EXCEPT ![a] = files[b], ![b] = files[a]])

Delete ==
    \E n \in Present(files) : Changed([files EXCEPT ![n] = Absent])

Modify ==
    \E n \in Present(files), c \in Contents :
        /\ c # files[n]
        /\ Changed([files EXCEPT ![n] = c])

Add ==
    \E n \in Names \ Present(files), c \in Contents :
        Changed([files EXCEPT ![n] = c])

Init ==
    /\ files \in [Names -> Contents \cup {Absent}]
    /\ sidecar  = NoSidecar
    /\ captured = NoCall
    /\ result   = NoResult
    /\ netcdf_dataset  = <<>>
    /\ metadata_object = <<>>
    /\ warnings = {}
    /\ doi_minting_mode = "test"
    /\ run = [netcdf_path |-> None, before |-> <<>>, writes |-> <<>>,
              survey |-> "none", minter |-> "not called", failed_at |-> "none"]
    /\ xml_output = None
    /\ xml2nc_mapping = <<>>
    /\ xml_metadata = <<>>
    /\ fragments = <<>>
    /\ merged = <<>>
    /\ pc       = "idle"

Write ==
    /\ result = NoResult
    /\ \E u \in CaptureUuidArgs, d \in FolderArgs, e \in ExclArgs : write_json_metadata(u, d, e)

Check ==
    /\ result = NoResult
    /\ \E u \in UuidArgs, d \in FolderArgs, e \in ExclArgs :
        \E order \in Orders(DOMAIN get_filtered_md5sum_dict(files, effective_exclusions(e))),
           saved_order \in (IF read_json_metadata.exists
                            THEN Orders(DOMAIN saved_md5_dict(read_json_metadata))
                            ELSE {<<>>}) :
            check_json_metadata(u, d, e, order, saved_order)

\* The caller of check_json_metadata has caught the exception or got the
\* normal return; it may go on to call again.
Handled ==
    /\ result # NoResult
    /\ result' = NoResult
    /\ UNCHANGED <<files, sidecar, captured, record_vars>>

Next == Write \/ Check \/ Handled \/ Rename \/ Swap \/ Delete \/ Modify \/ Add

Spec == Init /\ [][Next]_vars

\* ======================================================================
\* The record creator: GeophysicsSurveyMetadataRecordCreator
\* ======================================================================
\* Python truthiness of an attribute value: None and '' are false.
truthy(v) == v # None /\ v # ""

\* Identifiers found in attribute stores and sidecars, and those uuid.uuid4()
\* can return.
GeneratedUuids == {"g1", "g2"}
StoreUuids == {None, "", "u1", "u2"}

\* The sidecars a record creator can meet in the dataset's folder: none, one
\* that is not JSON, one without a uuid key, and ones with a null, empty or
\* proper uuid.
SidecarWith(u) ==
    [exists |-> TRUE, uuid |-> u, folder_path |-> AbsFolder, files |-> <<>>]
RecordSidecars ==
    {NoSidecar,
     [exists |-> TRUE, corrupt |-> TRUE],
     [exists |-> TRUE, folder_path |-> AbsFolder, files |-> <<>>]}
    \cup {SidecarWith(u) : u \in StoreUuids}

\* The netcdf_path arguments tried (main passes args.netcdf as it is given):
\* the dataset file named with its folder, and by its bare file name from
\* within the folder. A path is its os.path.dirname and os.path.basename.
EmptyPath == [abs |-> FALSE, segs |-> <<>>]     \* the path ''
NetcdfPaths ==
    {[dirname |-> AbsFolder, basename |-> "1.nc"],
     [dirname |-> EmptyPath, basename |-> "1.nc"]}

\* os.path.dirname
dirname(path) == path.dirname

\* os.path.isdir: the dataset's folder is a directory, '' is not.
isdir(folder) == folder # EmptyPath

\* ------------------------------------------------ strings and conversions
\* str.split(','): the comma-separated strings that occur, and their parts.
split(s) ==
    CASE s = "2, 1" -> <<"2", " 1">>
      [] s = "1,2"  -> <<"1", "2">>
      [] s = "01-Jan-10, 15-Mar-10" -> <<"01-Jan-10", " 15-Mar-10">>
      [] s = "15-Mar-10, 01-Jan-10" -> <<"15-Mar-10", " 01-Jan-10">>
      [] s = "soon, 2011-02-01T00:00:00" -> <<"soon", " 2011-02-01T00:00:00">>
      [] s = "http://a.b/x, http://dx.doi.org/10.1/d0"
              -> <<"http://a.b/x", " http://dx.doi.org/10.1/d0">>
      [] OTHER      -> <<s>>

\* str.strip()
strip(t) ==
    CASE t = " 1" -> "1"
      [] t = " 15-Mar-10" -> "15-Mar-10"
      [] t = " 01-Jan-10" -> "01-Jan-10"
      [] t = " 2011-02-01T00:00:00" -> "2011-02-01T00:00:00"
      [] t = " http://dx.doi.org/10.1/d0" -> "http://dx.doi.org/10.1/d0"
      [] OTHER  -> t

\* int(): a number, or ValueError.
int(t) ==
    CASE t = "1" -> [ok |-> TRUE, value |-> 1]
      [] t = "2" -> [ok |-> TRUE, value |-> 2]
      [] OTHER   -> [ok |-> FALSE]

\* str(): of None it is the text 'None'.
str(v) == IF v = None THEN "None" ELSE v

\* [int(v.strip()) for v in s.split(',') if v.strip()]: the numbers, or a
\* failure when a part is not a number.
int_list(s) ==
    LET parts == SelectSeq(split(s), LAMBDA t : strip(t) # "")
        nums  == [i \in DOMAIN parts |-> int(strip(parts[i]))]
    IN  IF \E i \in DOMAIN nums : ~nums[i].ok
        THEN [ok |-> FALSE]
        ELSE [ok |-> TRUE, value |-> {nums[i].value : i \in DOMAIN nums}]

\* datetime.strptime over datetime_format_list, then .date(): <<y, m, d>>,
\* or a failure when no format matches.
strptime(t) ==
    CASE t = "01-Jan-10" -> [ok |-> TRUE, value |-> <<2010, 1, 1>>]
      [] t = "15-Mar-10" -> [ok |-> TRUE, value |-> <<2010, 3, 15>>]
      [] t = "2011-02-01T00:00:00" -> [ok |-> TRUE, value |-> <<2011, 2, 1>>]
      [] OTHER -> [ok |-> FALSE]

\* MetadataRecordCreator.str2datelist: the dates of the parts that parse.
str2datelist(multi_date_string) ==
    LET parts  == split(multi_date_string)
        parsed == [i \in DOMAIN parts |-> strptime(strip(parts[i]))]
        good   == SelectSeq(parsed, LAMBDA p : p.ok)
    IN  [i \in DOMAIN good |-> good[i].value]

DateLessEq(a, b) ==
    \/ a[1] < b[1]
    \/ a[1] = b[1] /\ a[2] < b[2]
    \/ a[1] = b[1] /\ a[2] = b[2] /\ a[3] <= b[3]

\* min() and max() of a list of dates; of an empty list they raise ValueError.
min_date(l) == CHOOSE a \in Range(l) : \A b \in Range(l) : DateLessEq(a, b)
max_date(l) == CHOOSE a \in Range(l) : \A b \in Range(l) : DateLessEq(b, a)

\* date.isoformat()
isoformat(d) ==
    CASE d = <<2010, 1, 1>>  -> "2010-01-01"
      [] d = <<2010, 3, 15>> -> "2010-03-15"
      [] d = <<2011, 2, 1>>  -> "2011-02-01"

\* re.match('^(\d{4})-', s).group(1)
year_of(s) ==
    CASE s = "2010-01-01" -> "2010"
      [] s = "2010-03-15" -> "2010"
      [] s = "2011-02-01" -> "2011"

\* re.match('^(.+):.*', history).group(1) parsed with '%a %b %d %H:%M:%S %Y'
\* and put in ISO form, or a failure.
history_datetime(history) ==
    CASE history = "Wed Oct 26 14:34:42 2016: GDAL CreateCopy"
              -> [ok |-> TRUE, value |-> "2016-10-26T14:34:42"]
      [] OTHER -> [ok |-> FALSE]

\* 'http://dx.doi.org/' + str(new_doi)
doi_url(new_doi) ==
    CASE new_doi = "10.1/m1" -> "http://dx.doi.org/10.1/m1"
      [] new_doi = "10.1/m2" -> "http://dx.doi.org/10.1/m2"

\* ------------------------------------------------------- the run's inputs
\* setattr(netcdf_dataset, name, value)
setattr(ds, name, value) ==
    [a \in DOMAIN ds \cup {name} |-> IF a = name THEN value ELSE ds[a]]

\* An attribute store holding attribute `name` unless v is None.
Attr(name, v) == IF v = None THEN <<>> ELSE (name :> v)

StoreSurveyIds == {None, "1", "2, 1"}
StoreDois == {None, "", "http://dx.doi.org/10.1/d0"}
Provenances ==
    {<<>>,
     [history |-> "Wed Oct 26 14:34:42 2016: GDAL CreateCopy"],
     [history |-> "converted", date_modified |-> "2016-08-29T10:51:42"]}

\* The attribute stores a run can meet.
DatasetStores ==
    {Attr("uuid", u) @@ Attr("survey_id", s) @@ Attr("doi", d) @@ p :
        u \in StoreUuids, s \in StoreSurveyIds, d \in StoreDois, p \in Provenances}

\* What the survey registry, or the database behind it, can return.
SurveyFragments ==
    {[SURVEYID |-> "1", STARTDATE |-> "01-Jan-10, 15-Mar-10", ENDDATE |-> "15-Mar-10"],
     [SURVEYID |-> "1,2", STARTDATE |-> "soon", ENDDATE |-> "soon, 2011-02-01T00:00:00"],
     [SURVEYID |-> "2"],
     [STARTDATE |-> "15-Mar-10, 01-Jan-10"]}

\* What NetCDFGridUtils / NetCDFLineUtils make of the dataset: a grid, a line
\* dataset or neither, and its bounding box in WGS84.
Geometries ==
    {[kind |-> "grid",    wgs84_bbox |-> <<<<1, 3>>, <<2, 3>>, <<2, 4>>, <<1, 4>>>>],
     [kind |-> "line",    wgs84_bbox |-> <<<<1, 3>>, <<2, 4>>>>],
     [kind |-> "line",    wgs84_bbox |-> <<>>],
     [kind |-> "neither", wgs84_bbox |-> <<>>]}

\* doi_minter.get_a_doi: it raises, the service refuses, or it returns a DOI.
MintOutcomes ==
    {[kind |-> "raised"], [kind |-> "refused"],
     [kind |-> "minted", new_doi |-> "10.1/m1"]}

MintingModes == {"test", "prod"}

\* The history of a run: the netcdf_path it was given, the attribute store it
\* started from, the attributes it set and synced, and what its collaborators
\* did.
NoRun == [netcdf_path |-> None, before |-> <<>>, writes |-> <<>>,
          survey |-> "none", minter |-> "not called", failed_at |-> "none"]

\* Metadata.get_metadata: the value at [category, field], or None when a
\* segment is missing.
get_metadata(tree, path) ==
    IF path[1] \in DOMAIN tree /\ path[2] \in DOMAIN tree[path[1]]
    THEN tree[path[1]][path[2]]
    ELSE None

\* A variant of merge_root_metadata in which the fragment always wins.
merge_root_metadata_last_wins(tree, category, fragment, overwrite) ==
    LET cats == DOMAIN tree \cup {category}
        old  == IF category \in DOMAIN tree THEN tree[category] ELSE <<>>
        new  == [k \in DOMAIN old \cup DOMAIN fragment |->
                    IF k \in DOMAIN fragment THEN fragment[k] ELSE old[k]]
    IN  [c \in cats |-> IF c = category THEN new ELSE tree[c]]

\* Metadata.merge_root_metadata: a category absent from the root is
\* inserted whole; otherwise a field is taken from the fragment when the
\* root has none, and replaced only with overwrite.
merge_root_metadata(tree, category, fragment, overwrite) ==
    LET cats == DOMAIN tree \cup {category}
        old  == IF category \in DOMAIN tree THEN tree[category] ELSE <<>>
        new  == [k \in DOMAIN old \cup DOMAIN fragment |->
                    IF k \notin DOMAIN old THEN fragment[k]
                    ELSE IF k \notin DOMAIN fragment THEN old[k]
                    ELSE IF overwrite \/ old[k] = None THEN fragment[k]
                    ELSE old[k]]
    IN  [c \in cats |-> IF c = category THEN new ELSE tree[c]]

\* metadata_dict[category] = fragment: the category is replaced whole.
set_category(tree, category, fragment) ==
    [c \in DOMAIN tree \cup {category} |->
        IF c = category THEN fragment ELSE tree[c]]

\* calculated_values[field] = value, calculated_values being the Calculated
\* category of the tree.
set_calculated(tree, field, value) ==
    set_category(tree, "Calculated", setattr(tree["Calculated"], field, value))

\* read_json_metadata(dataset_folder).get('uuid') inside get_uuid's try
\* block: the value, or a failure when dataset_folder is not a directory or
\* the sidecar cannot be opened or parsed.
sidecar_uuid(sc, dataset_folder) ==
    IF ~isdir(dataset_folder) \/ ~sc.exists \/ "corrupt" \in DOMAIN sc
    THEN [raised |-> TRUE, value |-> None]
    ELSE [raised |-> FALSE,
          value  |-> IF "uuid" \in DOMAIN sc THEN sc.uuid ELSE None]

\* A variant of get_uuid that consults the sidecar before the attribute store.
get_uuid_sidecar_first(tree, sc, generated, netcdf_path) ==
    LET read == sidecar_uuid(sc, dirname(netcdf_path))
        store_uuid == get_metadata(tree, <<"NetCDF", "uuid">>)
    IN  IF ~read.raised /\ truthy(read.value)
        THEN [uuid |-> read.value, written |-> TRUE, warned |-> FALSE]
        ELSE IF truthy(store_uuid)
             THEN [uuid |-> store_uuid, written |-> FALSE, warned |-> read.raised]
             ELSE [uuid |-> generated, written |-> TRUE, warned |-> read.raised]

\* A variant of get_uuid that generates an identifier whenever the attribute
\* store has none.
get_uuid_ignoring_sidecar(tree, sc, generated, netcdf_path) ==
    LET store_uuid == get_metadata(tree, <<"NetCDF", "uuid">>)
    IN  IF truthy(store_uuid)
        THEN [uuid |-> store_uuid, written |-> FALSE, warned |-> FALSE]
        ELSE [uuid |-> generated, written |-> TRUE, warned |-> FALSE]

\* A variant of get_uuid that writes the identifier back whatever its origin.
get_uuid_always_writing(tree, sc, generated, netcdf_path) ==
    LET dataset_uuid0 == get_metadata(tree, <<"NetCDF", "uuid">>)
    IN  IF truthy(dataset_uuid0)
        THEN [uuid |-> dataset_uuid0, written |-> TRUE, warned |-> FALSE]
        ELSE LET read == sidecar_uuid(sc, dirname(netcdf_path))
                 dataset_uuid1 == IF read.raised THEN dataset_uuid0 ELSE read.value
                 dataset_uuid2 == IF ~truthy(dataset_uuid1) THEN generated
                                  ELSE dataset_uuid1
             IN  [uuid |-> dataset_uuid2, written |-> TRUE, warned |-> read.raised]

\* populate_template_values.get_uuid: the identifier it returns, whether it
\* wrote it to the attribute store, and whether it logged the warning.
\* `generated` is what uuid.uuid4() returns if it is called.
get_uuid(tree, sc, generated, netcdf_path) ==
    LET dataset_uuid0 == get_metadata(tree, <<"NetCDF", "uuid">>)
    IN  IF truthy(dataset_uuid0)
        THEN [uuid |-> dataset_uuid0, written |-> FALSE, warned |-> FALSE]
        ELSE LET read == sidecar_uuid(sc, dirname(netcdf_path))
                 dataset_uuid1 == IF read.raised THEN dataset_uuid0 ELSE read.value
                 dataset_uuid2 == IF ~truthy(dataset_uuid1) THEN generated
                                  ELSE dataset_uuid1
             IN  [uuid |-> dataset_uuid2, written |-> TRUE, warned |-> read.raised]

\* read_metadata, lines 87-95: whether the try block raises (no survey_id
\* attribute, no SURVEYID in the tree, a part that is not a number, or the
\* assertion), and with it the value written to the attribute store.
survey_id_check(ds, tree) ==
    LET survey_id == get_metadata(tree, <<"Survey", "SURVEYID">>)
        raised ==
            \/ "survey_id" \notin DOMAIN ds
            \/ ~int_list(str(ds["survey_id"])).ok
            \/ survey_id = None
            \/ ~int_list(survey_id).ok
            \/ int_list(str(ds["survey_id"])).value # int_list(survey_id).value
    IN  [raised |-> raised, value |-> str(survey_id)]

\* MetadataRecordCreator.get_doi: the DOI and the warning logged, given what
\* the minting service does.
minted_doi(outcome) ==
    CASE outcome.kind = "minted" ->
             [doi |-> doi_url(outcome.new_doi), warning |-> None]
      [] outcome.kind = "refused" ->
             [doi |-> None, warning |-> "WARNING: DOI minting failed"]
      [] outcome.kind = "raised" ->
             [doi |-> None, warning |-> "WARNING: Error minting DOI"]

\* A variant of get_doi that persists a minted DOI in every minting mode.
get_doi_any_mode(outcome, mode) ==
    LET dataset_doi == minted_doi(outcome).doi
    IN  [doi     |-> dataset_doi,
         written |-> truthy(dataset_doi),
         warning |-> minted_doi(outcome).warning]

\* populate_template_values.get_doi, lines 127-136: the DOI returned and
\* whether it is written to the attribute store.
get_doi(outcome, mode) ==
    LET dataset_doi == minted_doi(outcome).doi
    IN  [doi     |-> dataset_doi,
         written |-> truthy(dataset_doi) /\ mode = "prod",
         warning |-> minted_doi(outcome).warning]

\* str() of a coordinate.
coord_str(x) ==
    CASE x = 1 -> "1.0" [] x = 2 -> "2.0" [] x = 3 -> "3.0" [] x = 4 -> "4.0"

SeqMin(s) == CHOOSE a \in Range(s) : \A b \in Range(s) : a <= b
SeqMax(s) == CHOOSE a \in Range(s) : \A b \in Range(s) : b <= a

\* populate_template_values, lines 143-166: FILENAME, the cell size of a
\* grid and the spatial extent; it raises when the dataset is neither a grid
\* nor a line dataset or its bounding box is empty.
spatial_values(geometry) ==
    LET cell == IF geometry.kind = "grid"
                THEN [CELLSIZE_M |-> "100", CELLSIZE_DEG |-> "0.001"]
                ELSE <<>>
        head == [FILENAME |-> "1.nc"] @@ cell
        xs == [i \in DOMAIN geometry.wgs84_bbox |-> geometry.wgs84_bbox[i][1]]
        ys == [i \in DOMAIN geometry.wgs84_bbox |-> geometry.wgs84_bbox[i][2]]
    IN  IF geometry.kind = "neither"
        THEN [raised |-> TRUE, values |-> [FILENAME |-> "1.nc"]]
        ELSE IF geometry.wgs84_bbox = <<>>
        THEN [raised |-> TRUE, values |-> head]
        ELSE [raised |-> FALSE,
              values |-> head @@ [WLON |-> coord_str(SeqMin(xs)),
                                  SLAT |-> coord_str(SeqMin(ys)),
                                  ELON |-> coord_str(SeqMax(xs)),
                                  NLAT |-> coord_str(SeqMax(ys))]]

\* populate_template_values, lines 168-195: the dates, the year and the
\* conversion time.
temporal_values(tree) ==
    LET starts == str2datelist(str(get_metadata(tree, <<"Survey", "STARTDATE">>)))
        ends   == str2datelist(str(get_metadata(tree, <<"Survey", "ENDDATE">>)))
        START_DATE == IF starts = <<>> THEN None ELSE isoformat(min_date(starts))
        END_DATE   == IF ends = <<>> THEN None ELSE isoformat(max_date(ends))
        history == history_datetime(str(get_metadata(tree, <<"NetCDF", "history">>)))
        date_modified == get_metadata(tree, <<"NetCDF", "date_modified">>)
    IN  [START_DATE |-> START_DATE,
         END_DATE   |-> END_DATE,
         YEAR       |-> IF END_DATE = None THEN "UNKNOWN" ELSE year_of(END_DATE),
         CONVERSION_DATETIME |->
             IF history.ok THEN history.value
             ELSE IF truthy(date_modified) THEN date_modified ELSE "UNKNOWN"]

\* The distributor values get_xml_text reads from the Template category.
OrganisationFields ==
    {"ORGANISATION_NAME", "ORGANISATION_PHONE", "ORGANISATION_ADDRESS",
     "ORGANISATION_CITY", "ORGANISATION_STATE", "ORGANISATION_POSTCODE",
     "ORGANISATION_COUNTRY", "ORGANISATION_EMAIL"}

\* What the JSON text template at json_text_template_path defines for the
\* distributor values: nothing (None), or a value for each of them.
Organisations == {None, "Geoscience Australia"}

\* TemplateMetadata(json_text_template_path, metadata_object): the Template
\* category rendered from the tree.
template_values(tree, organisation) ==
    [UUID |-> get_metadata(tree, <<"Calculated", "UUID">>),
     DOI  |-> get_metadata(tree, <<"Calculated", "DOI">>),
     YEAR |-> get_metadata(tree, <<"Calculated", "YEAR">>)]
    @@ (IF organisation = None THEN <<>>
        ELSE [k \in OrganisationFields |-> organisation])

\* get_xml_text, lines 77-101: with a DOI the distribution is built from the
\* Template's distributor values; when one of them has no value the
\* assertion fails and the warning is logged in its place.
distribution_warning(tree) ==
    IF /\ truthy(get_metadata(tree, <<"Calculated", "DOI">>))
       /\ \E k \in OrganisationFields : ~truthy(get_metadata(tree, <<"Template", k>>))
    THEN {"WARNING: Unable to create DOI distribution"}
    ELSE {}

\* ---------------------------------------------------- the steps of a run
\* The run stops with an exception raised at `step`.
fail(step) ==
    /\ pc' = "failed"
    /\ run' = [run EXCEPT !.failed_at = step]

\* netcdf_dataset.<name> = value; netcdf_dataset.sync()
wrote(r, name, value) ==
    [r EXCEPT !.writes = Append(r.writes, [attribute |-> name, value |-> value])]

\* A record creator is constructed on the dataset: an empty Metadata(), the
\* minting mode, the dataset opened for update.
new_record_creator ==
    /\ pc \in {"idle", "done", "failed"}
    /\ metadata_object' = <<>>
    /\ warnings' = {}
    /\ doi_minting_mode' \in MintingModes
    /\ \E netcdf_path \in NetcdfPaths :
          run' = [NoRun EXCEPT !.netcdf_path = netcdf_path,
                               !.before = netcdf_dataset]
    /\ xml_output' = None
    /\ pc' = "created"
    /\ UNCHANGED <<netcdf_dataset, sidecar, manifest_vars, other_vars>>

\* get_xml_text, lines 48-56: the XML template is loaded, or that fails.
get_template ==
    /\ pc = "created"
    /\ \/ fail("get_template")
       \/ pc' = "loaded" /\ UNCHANGED run
    /\ UNCHANGED <<netcdf_dataset, metadata_object, warnings, doi_minting_mode,
                   xml_output, sidecar, manifest_vars, other_vars>>

\* read_metadata, lines 60-63: the attribute store becomes the NetCDF
\* category of the merged tree.
read_netcdf_metadata ==
    /\ pc = "loaded"
    /\ metadata_object' = merge_root_metadata(metadata_object, "NetCDF",
                                              netcdf_dataset, FALSE)
    /\ pc' = "netcdf"
    /\ UNCHANGED <<netcdf_dataset, warnings, doi_minting_mode, run, xml_output,
                   sidecar, manifest_vars, other_vars>>

\* read_metadata, lines 65-85: the Survey category from the registry, or
\* from the database when the registry fails, or from neither.
read_survey_metadata ==
    /\ pc = "netcdf"
    /\ \/ \E survey_metadata \in SurveyFragments :
            /\ metadata_object' = merge_root_metadata(metadata_object, "Survey",
                                                      survey_metadata, FALSE)
            /\ warnings' = warnings
            /\ run' = [run EXCEPT !.survey = "api"]
       \/ \E survey_metadata \in SurveyFragments :
            /\ metadata_object' = merge_root_metadata(metadata_object, "Survey",
                                                      survey_metadata, TRUE)
            /\ warnings' = warnings \cup {"Unable to read from Survey API"}
            /\ run' = [run EXCEPT !.survey = "db"]
       \/ /\ metadata_object' = metadata_object
          /\ warnings' = warnings \cup {"Unable to read from Survey API",
                                        "Unable to perform direct Oracle DB read"}
          /\ run' = [run EXCEPT !.survey = "failed"]
    /\ pc' = "survey"
    /\ UNCHANGED <<netcdf_dataset, doi_minting_mode, xml_output,
                   sidecar, manifest_vars, other_vars>>

\* read_metadata, lines 87-95: the survey identifiers of the attribute store
\* and of the tree are compared; when the try block raises, the tree's is
\* written to the attribute store.
check_survey_id ==
    /\ pc = "survey"
    /\ LET c == survey_id_check(netcdf_dataset, metadata_object)
       IN  /\ netcdf_dataset' = IF c.raised
                                THEN setattr(netcdf_dataset, "survey_id", c.value)
                                ELSE netcdf_dataset
           /\ run' = IF c.raised THEN wrote(run, "survey_id", c.value) ELSE run
    /\ pc' = "read"
    /\ UNCHANGED <<metadata_object, warnings, doi_minting_mode, xml_output,
                   sidecar, manifest_vars, other_vars>>

\* populate_template_values, lines 139-195: a fresh Calculated category with
\* the derived fields.
derive_values ==
    /\ pc = "read"
    /\ \E geometry \in Geometries :
          LET s == spatial_values(geometry)
          IN  IF s.raised
              THEN /\ metadata_object' =
                         set_category(metadata_object, "Calculated", s.values)
                   /\ fail("spatial extent")
              ELSE /\ metadata_object' =
                         set_category(metadata_object, "Calculated",
                                      s.values @@ temporal_values(metadata_object))
                   /\ pc' = "derived"
                   /\ UNCHANGED run
    /\ UNCHANGED <<netcdf_dataset, warnings, doi_minting_mode, xml_output,
                   sidecar, manifest_vars, other_vars>>

\* populate_template_values, line 197: calculated_values['UUID'] = get_uuid()
populate_uuid ==
    /\ pc = "derived"
    /\ \E generated \in GeneratedUuids :
          LET r == get_uuid(metadata_object, sidecar, generated, run.netcdf_path)
          IN  /\ metadata_object' = set_calculated(metadata_object, "UUID", r.uuid)
              /\ netcdf_dataset' =
                    IF r.written THEN setattr(netcdf_dataset, "uuid", r.uuid)
                    ELSE netcdf_dataset
              /\ run' = IF r.written THEN wrote(run, "uuid", r.uuid) ELSE run
              /\ warnings' =
                    IF r.warned
                    THEN warnings \cup {"Unable to read UUID from metadata.json file"}
                    ELSE warnings
    /\ pc' = "uuid"
    /\ UNCHANGED <<doi_minting_mode, xml_output, sidecar, manifest_vars, other_vars>>

\* populate_template_values, lines 199-202: the DOI of the attribute store,
\* or else one from get_doi(), whose TemplateMetadata(...) can raise.
populate_doi ==
    /\ pc = "uuid"
    /\ LET doi0 == get_metadata(metadata_object, <<"NetCDF", "doi">>)
       IN  IF truthy(doi0)
           THEN /\ metadata_object' = set_calculated(metadata_object, "DOI", doi0)
                /\ pc' = "doi"
                /\ UNCHANGED <<netcdf_dataset, warnings, run>>
           ELSE \/ /\ metadata_object' = set_calculated(metadata_object, "DOI", doi0)
                   /\ pc' = "failed"
                   /\ run' = [run EXCEPT !.failed_at = "placeholder template",
                                         !.minter = "template failed"]
                   /\ UNCHANGED <<netcdf_dataset, warnings>>
                \/ \E outcome \in MintOutcomes :
                      LET r == get_doi(outcome, doi_minting_mode)
                      IN  /\ metadata_object' =
                                set_calculated(metadata_object, "DOI", r.doi)
                          /\ netcdf_dataset' =
                                IF r.written
                                THEN setattr(netcdf_dataset, "doi", r.doi)
                                ELSE netcdf_dataset
                          /\ run' = [(IF r.written THEN wrote(run, "doi", r.doi)
                                      ELSE run) EXCEPT !.minter = outcome.kind]
                          /\ warnings' = IF r.warning = None THEN warnings
                                         ELSE warnings \cup {r.warning}
                          /\ pc' = "doi"
    /\ UNCHANGED <<doi_minting_mode, xml_output, sidecar, manifest_vars, other_vars>>

\* populate_template_values, lines 205-206: the final template is populated
\* and merged as the Template category, or TemplateMetadata(...) raises.
populate_template ==
    /\ pc = "doi"
    /\ \/ /\ fail("final template")
          /\ UNCHANGED metadata_object
       \/ /\ \E organisation \in Organisations :
                metadata_object' = merge_root_metadata(metadata_object, "Template",
                                      template_values(metadata_object, organisation),
                                      FALSE)
          /\ pc' = "populated"
          /\ UNCHANGED run
    /\ UNCHANGED <<netcdf_dataset, warnings, doi_minting_mode, xml_output,
                   sidecar, manifest_vars, other_vars>>

\* get_xml_text, lines 62-104, and output_xml, lines 147-151: the DOI
\* distribution is built or its warning logged, then the record is rendered
\* and written, or rendering or writing raises.
output_xml ==
    /\ pc = "populated"
    /\ warnings' = warnings \cup distribution_warning(metadata_object)
    /\ \/ fail("render") /\ UNCHANGED xml_output
       \/ fail("write output") /\ UNCHANGED xml_output
       \/ /\ xml_output' = metadata_object["Template"]
          /\ pc' = "done"
          /\ UNCHANGED run
    /\ UNCHANGED <<netcdf_dataset, metadata_object, doi_minting_mode,
                   sidecar, manifest_vars, other_vars>>

\* The attribute stores and sidecars a run can meet.
InitRecord ==
    /\ files    = [n \in Names |-> Absent]
    /\ captured = NoCall
    /\ result   = NoResult
    /\ sidecar \in RecordSidecars
    /\ netcdf_dataset \in DatasetStores
    /\ metadata_object = <<>>
    /\ warnings = {}
    /\ doi_minting_mode = "test"
    /\ run = NoRun
    /\ xml_output = None
    /\ xml2nc_mapping = <<>>
    /\ xml_metadata = <<>>
    /\ fragments = <<>>
    /\ merged = <<>>
    /\ pc = "idle"

NextRecord ==
    \/ new_record_creator \/ get_template \/ read_netcdf_metadata
    \/ read_survey_metadata \/ check_survey_id \/ derive_values
    \/ populate_uuid \/ populate_doi \/ populate_template \/ output_xml

SpecRecord == InitRecord /\ [][NextRecord]_vars

\* ======================================================================
\* Merging source fragments into an empty tree
\* ======================================================================
MergeCategories == {"NetCDF", "Survey"}
MergeFields == {"X", "Y"}
MergeValues == {None, "a", "b"}

\* The fragments of a category: some of the fields, each with a value.
MergeFragments ==
    UNION {[fs -> MergeValues] : fs \in SUBSET MergeFields}

\* Two sources to merge into an empty root; the first with the default
\* overwrite=False, the second with either setting.
InitMerge ==
    /\ files    = [n \in Names |-> Absent]
    /\ sidecar  = NoSidecar
    /\ captured = NoCall
    /\ result   = NoResult
    /\ netcdf_dataset = <<>>
    /\ metadata_object = <<>>
    /\ warnings = {}
    /\ doi_minting_mode = "test"
    /\ run = NoRun
    /\ xml_output = None
    /\ xml2nc_mapping = <<>>
    /\ xml_metadata = <<>>
    /\ fragments \in
          {<<[category |-> c1, metadata_dict |-> f1, overwrite |-> FALSE],
             [category |-> c2, metadata_dict |-> f2, overwrite |-> o2]>> :
              c1 \in MergeCategories, c2 \in MergeCategories,
              f1 \in MergeFragments, f2 \in MergeFragments, o2 \in BOOLEAN}
    /\ merged = <<>>
    /\ pc = "idle"

\* self.metadata_object.merge_root_metadata(category, metadata_dict, overwrite)
\* of the next source.
merge_next ==
    /\ fragments # <<>>
    /\ metadata_object' =
          merge_root_metadata(metadata_object, Head(fragments).category,
                              Head(fragments).metadata_dict,
                              Head(fragments).overwrite)
    /\ fragments' = Tail(fragments)
    /\ merged' = Append(merged, Head(fragments))
    /\ UNCHANGED <<netcdf_dataset, warnings, doi_minting_mode, run, xml_output,
                   acdd_vars, pc, sidecar, manifest_vars>>

NextMerge == merge_next

SpecMerge == InitMerge /\ [][NextMerge]_vars

\* ======================================================================
\* update_acdd_metadata: set_netcdf_metadata_attributes
\* ======================================================================
\* The longest xml2nc_mapping list tried.
MaxMapping == 3

\* Attribute names and metadata paths of the mapping lists tried, and the
\* values a catalogue record has at those paths (None: the path is not
\* found).
MappingKeys  == {"title", "summary", "doi", "keywords_vocabulary",
                 "geospatial_lon_min"}
MappingPaths == {"a/b", "c"}
XmlRecords ==
    {[p \in MappingPaths |-> IF p = "a/b" THEN v ELSE w] :
        v \in {None, "v1"},
        w \in {None, "v2", "http://a.b/x, http://dx.doi.org/10.1/d0"}}
MappingLists ==
    UNION {[1..n -> MappingKeys \X MappingPaths] : n \in 0..MaxMapping}

\* The attribute stores set_netcdf_metadata_attributes is tried on.
AcddStores ==
    {[uuid |-> "u1"] @@ Attr("title", t) @@ Attr("doi", d) :
        t \in {None, "old title"}, d \in {None, "http://dx.doi.org/10.1/d0"}}

\* XMLMetadata.get_metadata(metadata_path.split('/')): the value at the
\* path, None when it is not found.
xml_get_metadata(xml, metadata_path) ==
    IF metadata_path \in DOMAIN xml THEN xml[metadata_path] ELSE None

\* del netcdf_dataset.<name>
delattr(ds, name) == [a \in DOMAIN ds \ {name} |-> ds[a]]

\* Lines 66-97: the geospatial attributes, set from the dataset's geometry.
geospatial_attributes(geometry) ==
    LET xs == [i \in DOMAIN geometry.wgs84_bbox |-> geometry.wgs84_bbox[i][1]]
        ys == [i \in DOMAIN geometry.wgs84_bbox |-> geometry.wgs84_bbox[i][2]]
    IN  [geospatial_lon_min |-> coord_str(SeqMin(xs)),
         geospatial_lat_min |-> coord_str(SeqMin(ys)),
         geospatial_lon_max |-> coord_str(SeqMax(xs)),
         geospatial_lat_max |-> coord_str(SeqMax(ys)),
         geospatial_bounds  |-> "POLYGON((...))",
         geospatial_bounds_crs |-> "GEOGCS[WGS 84]"]
        @@ (IF geometry.kind = "grid"
            THEN [geospatial_lon_resolution |-> "0.001",
                  geospatial_lat_resolution |-> "0.001",
                  geospatial_lon_units |-> "degrees",
                  geospatial_lat_units |-> "degrees"]
            ELSE <<>>)

\* A variant of mapping_loop in which a later entry for a name overrides an
\* earlier one.
RECURSIVE mapping_loop_last_wins(_, _, _, _)
mapping_loop_last_wins(ds, xml, mapping, keys_read) ==
    IF mapping = <<>> THEN [ds |-> ds, keys_read |-> keys_read, warnings |-> {}]
    ELSE LET key   == Head(mapping)[1]
             path  == Head(mapping)[2]
             value == xml_get_metadata(xml, path)
         IN  IF value # None
             THEN mapping_loop_last_wins(setattr(ds, key, value), xml, Tail(mapping),
                                         keys_read \cup {key})
             ELSE LET rest == mapping_loop_last_wins(ds, xml, Tail(mapping), keys_read)
                  IN  [rest EXCEPT !.warnings =
                          @ \cup {[message |-> "Metadata path not found",
                                   about |-> {path}]}]

\* Lines 102-116: the loop over xml2nc_mapping.
RECURSIVE mapping_loop(_, _, _, _)
mapping_loop(ds, xml, mapping, keys_read) ==
    IF mapping = <<>> THEN [ds |-> ds, keys_read |-> keys_read, warnings |-> {}]
    ELSE LET key   == Head(mapping)[1]
             path  == Head(mapping)[2]
             value == xml_get_metadata(xml, path)
         IN  IF key \in keys_read
             THEN mapping_loop(ds, xml, Tail(mapping), keys_read)
             ELSE IF value # None
             THEN mapping_loop(setattr(ds, key, value), xml, Tail(mapping),
                               keys_read \cup {key})
             ELSE LET rest == mapping_loop(ds, xml, Tail(mapping), keys_read)
                  IN  [rest EXCEPT !.warnings =
                          @ \cup {[message |-> "Metadata path not found",
                                   about |-> {path}]}]

\* url.startswith('http://dx.doi.org/')
is_doi_url(url) == url \in {"http://dx.doi.org/10.1/d0"}

\* url.replace('&amp;', '&')
unescape_amp(url) == url

\* Lines 126-137: of several comma-separated URLs one is kept, a proper DOI
\* URL if there is one.
single_doi(ds) ==
    IF "doi" \notin DOMAIN ds THEN ds
    ELSE LET parts    == split(ds["doi"])
             url_list == [i \in DOMAIN parts |-> strip(parts[i])]
             doi_list == SelectSeq(url_list, is_doi_url)
         IN  IF Len(url_list) > 1
             THEN setattr(ds, "doi",
                          unescape_amp(IF doi_list # <<>> THEN doi_list[1]
                                       ELSE url_list[1]))
             ELSE ds

\* 'https://pid.nci.org.au/dataset/%s' % netcdf_dataset.uuid
metadata_link(uuid) ==
    CASE uuid = "u1" -> "https://pid.nci.org.au/dataset/u1"
      [] uuid = "u2" -> "https://pid.nci.org.au/dataset/u2"

\* set_netcdf_metadata_attributes: the attribute store it leaves and the
\* warnings it logs. It raises before setting anything when the dataset is
\* neither a grid nor a line dataset or has an empty bounding box, and after
\* setting the attributes when the statistics fail.
set_netcdf_metadata_attributes(ds, xml, mapping, geometry, stats_ok) ==
    IF geometry.kind = "neither" \/ geometry.wgs84_bbox = <<>>
    THEN [raised |-> TRUE, ds |-> ds, warnings |-> {}]
    ELSE LET geo     == geospatial_attributes(geometry)
             ds1     == [a \in DOMAIN ds \cup DOMAIN geo |->
                            IF a \in DOMAIN geo THEN geo[a] ELSE ds[a]]
             looped  == mapping_loop(ds1, xml, mapping, {})
             unread_keys == {mapping[i][1] : i \in DOMAIN mapping} \ looped.keys_read
             logged  == looped.warnings \cup
                        (IF unread_keys # {}
                         THEN {[message |-> "No value found for metadata attribute(s)",
                                about |-> unread_keys]}
                         ELSE {})
             ds2     == single_doi(looped.ds)
             ds3     == setattr(ds2, "metadata_link", metadata_link(ds2["uuid"]))
             ds4     == setattr(ds3, "Conventions", "CF-1.6, ACDD-1.3")
             ds5     == delattr(delattr(delattr(ds4, "id"), "ga_uuid"),
                                "keywords_vocabulary")
         IN  IF ~stats_ok
             THEN [raised |-> TRUE, ds |-> ds4, warnings |-> logged]
             ELSE [raised |-> FALSE, ds |-> ds5, warnings |-> logged]

InitAcdd ==
    /\ files    = [n \in Names |-> Absent]
    /\ sidecar  = NoSidecar
    /\ captured = NoCall
    /\ result   = NoResult
    /\ netcdf_dataset \in AcddStores
    /\ metadata_object = <<>>
    /\ warnings = {}
    /\ doi_minting_mode = "test"
    /\ run = NoRun
    /\ xml_output = None
    /\ xml2nc_mapping \in MappingLists
    /\ xml_metadata \in XmlRecords
    /\ fragments = <<>>
    /\ merged = <<>>
    /\ pc = "idle"

\* One call of set_netcdf_metadata_attributes on the opened dataset.
SetAttributes ==
    /\ pc = "idle"
    /\ \E geometry \in Geometries, stats_ok \in BOOLEAN :
          LET r == set_netcdf_metadata_attributes(netcdf_dataset, xml_metadata,
                                                  xml2nc_mapping, geometry, stats_ok)
          IN  /\ netcdf_dataset' = r.ds
              /\ warnings' = r.warnings
              /\ pc' = IF r.raised THEN "failed" ELSE "set"
    /\ run' = [NoRun EXCEPT !.before = netcdf_dataset]
    /\ UNCHANGED <<metadata_object, doi_minting_mode, xml_output, acdd_vars,
                   merge_vars, sidecar, manifest_vars>>

NextAcdd == SetAttributes

SpecAcdd == InitAcdd /\ [][NextAcdd]_vars

\* ======================================================================
\* update_acdd_metadata: update_nc_metadata over the files of a folder
\* ======================================================================
\* The dataset files main() finds in the folder: those matching *.nc.
DatasetFiles(f) == {n \in Present(f) : n.ext = ".nc"}

\* The mapping lists and catalogue records the runs are tried with.
UpdateMappings ==
    {<<<<"title", "a/b">>>>, <<<<"title", "a/b">>, <<"title", "c">>>>}
UpdateXmlRecords ==
    {xml \in XmlRecords : xml["c"] \in {None, "v2"}}

\* Lines 36-49: the file is opened and its catalogue record obtained, or the
\* file cannot be opened, or the record cannot be read or fetched.
OpenOutcomes == {"opened", "cannot open", "no catalogue record"}

\* One update_nc_metadata(netcdf_path, ...) run on dataset file n, whose
\* uuid attribute is `uuid` (None: it has none) and whose folder is named
\* dataset_folder. The run raises before it has set an attribute (the file
\* cannot be opened, has no uuid, the catalogue record cannot be obtained,
\* the geometry is unusable), or after it has set attributes (the statistics
\* fail), or completes; the attributes set leave the file with bytes c. What
\* it logs at warning level or above is added to `warnings`. The
\* logger.error call of lines 41-42 passes one tuple for the two %s of its
\* message, which therefore cannot be formatted: no message reaches the log.
update_nc_metadata(n, uuid, dataset_folder, c, opening, xml, mapping, geometry, stats_ok) ==
    /\ result = NoResult
    /\ pc = "idle"
    /\ IF opening # "opened" \/ uuid = None
       THEN /\ pc' = "failed"
            /\ UNCHANGED <<files, sidecar, captured, warnings>>
       ELSE LET r == set_netcdf_metadata_attributes([uuid |-> uuid], xml, mapping,
                                                    geometry, stats_ok)
            IN  /\ warnings' = warnings \cup r.warnings
                /\ IF r.raised /\ r.ds = [uuid |-> uuid]
                   THEN /\ pc' = "failed"
                        /\ UNCHANGED <<files, sidecar, captured>>
                   ELSE IF r.raised
                   THEN /\ pc' = "failed"
                        /\ files' = [files EXCEPT ![n] = c]
                        /\ UNCHANGED <<sidecar, captured>>
                   ELSE /\ pc' = "idle"
                        /\ files' = [files EXCEPT ![n] = c]
                        /\ sidecar' = metadata_dict_of(uuid, dataset_folder,
                                                       <<None>>, files')
                        /\ captured' = [called |-> TRUE,
                                        call |-> Call(uuid, dataset_folder, <<None>>),
                                        files |-> files']
    /\ UNCHANGED <<result, netcdf_dataset, metadata_object, doi_minting_mode, run,
                   xml_output, other_vars>>

\* main(), lines 189-192: the exception of a run is logged and the loop goes
\* on with the next file.
update_failed ==
    /\ result = NoResult
    /\ pc = "failed"
    /\ warnings' = warnings \cup {[message |-> "Metadata update failed", about |-> {}]}
    /\ pc' = "idle"
    /\ UNCHANGED <<files, sidecar, captured, result, netcdf_dataset,
                   metadata_object, doi_minting_mode, run, xml_output, other_vars>>

\* main(), lines 181-190: a run on one of the dataset files find_files lists
\* (by absolute path).
Update ==
    \E n \in DatasetFiles(files), u \in CaptureUuidArgs \cup {None}, c \in Contents,
       opening \in OpenOutcomes, xml \in UpdateXmlRecords,
       mapping \in UpdateMappings, geometry \in Geometries, stats_ok \in BOOLEAN :
        update_nc_metadata(n, u, AbsFolder, c, opening, xml, mapping, geometry,
                           stats_ok)

InitUpdate == Init

NextUpdate == Update \/ update_failed \/ Check \/ Handled

SpecUpdate == InitUpdate /\ [][NextUpdate]_vars

\* ======================================================================
\* Properties of the manifest (write_json_metadata / check_json_metadata)
\* ======================================================================
FileKinds == {"renamed", "missing", "modified"}

\* A check_json_metadata call got as far as its verdict.
Verified == result.outcome \in {"ok", "raised"}

\* The per-file part of the report.
FileEntries(report) == SelectSeq(report, LAMBDA e : e.kind \in FileKinds)

\* The call named the stored identifier and the stored location.
NoHeaderMismatch ==
    /\ result.call.uuid = sidecar.uuid
    /\ result.call.dataset_folder = sidecar.folder_path

\* The verification used the exclusion list of the capture.
SameExclusions ==
    result.call.excluded_extensions = captured.call.excluded_extensions

\* The folder has not changed since the capture.
Unmodified == files = captured.files

StoredNames == {sidecar.files[i].file : i \in DOMAIN sidecar.files}
StoredMd5(n) == sidecar.files[CHOOSE i \in DOMAIN sidecar.files : sidecar.files[i].file = n].md5

\* The digest map the verification computed.
CurrentMd5 == get_filtered_md5sum_dict(files, effective_exclusions(result.call.excluded_extensions))

\* Current files whose digest equals d.
Sharing(d) == {n \in DOMAIN CurrentMd5 : CurrentMd5[n] = d}

Entry(kind, n) == {i \in DOMAIN result.report :
                      result.report[i].kind = kind /\ result.report[i].file = n}

\* The per-file part of the report is `entries`, and so is the whole report
\* when the identifier and the location are the stored ones.
ReportIs(entries) ==
    /\ FileEntries(result.report) = entries
    /\ NoHeaderMismatch => result.report = entries

\* C1 (as claimed): write_json_metadata then check_json_metadata with the
\* same arguments and no change to the files in between gives an empty
\* report, for an absolute and for a relative folder argument alike.
C1_RoundTrip ==
    (Verified /\ Unmodified /\ result.call = captured.call)
        => (result.report = <<>> /\ result.outcome = "ok")

\* C2 (as claimed): a stored entry whose name has no current file and whose
\* digest is shared by two or more current files is reported Missing, and
\* never as a rename.
C2_AmbiguousIsMissing ==
    Verified =>
        \A n \in StoredNames :
            (n \notin DOMAIN CurrentMd5 /\ Cardinality(Sharing(StoredMd5(n))) >= 2)
                => (Entry("missing", n) # {} /\ Entry("renamed", n) = {})

\* Since the capture the stored file `old` was renamed to `new`, a name not
\* in the folder before, and nothing else changed.
Renamed(old, new) ==
    /\ Verified /\ SameExclusions
    /\ old \in StoredNames
    /\ captured.files[new] = Absent
    /\ files = [captured.files EXCEPT ![old] = Absent, ![new] = captured.files[old]]

\* C3 (as claimed): after exactly one rename the report is one Renamed entry
\* from the stored name to the name the file was renamed to.
C3_SingleRename_Original ==
    \A old, new \in Names :
        Renamed(old, new) =>
            ReportIs(<<[kind |-> "renamed", file |-> old, to |-> new]>>)

\* C3 (amended): the same, provided the new name is not excluded from the
\* verification and no other current file has the renamed file's digest.
C3_SingleRename ==
    \A old, new \in Names :
        (/\ Renamed(old, new)
         /\ new \in DOMAIN CurrentMd5
         /\ Sharing(StoredMd5(old)) = {new})
            => ReportIs(<<[kind |-> "renamed", file |-> old, to |-> new]>>)

C3_Witness ==
    \E old, new \in Names :
        /\ Renamed(old, new)
        /\ new \in DOMAIN CurrentMd5
        /\ Sharing(StoredMd5(old)) = {new}
        /\ Cardinality(StoredNames) >= 2
        /\ result.outcome = "raised"
        /\ Len(result.report) = 1

\* Since the capture the stored files a and b, of distinct contents that no
\* other file has, were renamed to each other's names; nothing else changed.
Swapped(a, b) ==
    /\ Verified /\ SameExclusions
    /\ {a, b} \subseteq StoredNames
    /\ captured.files[a] # captured.files[b]
    /\ files = [captured.files EXCEPT ![a] = captured.files[b],
                                      ![b] = captured.files[a]]
    /\ Sharing(StoredMd5(a)) = {b}
    /\ Sharing(StoredMd5(b)) = {a}

\* C4 (as claimed): after a swap the report is two Renamed entries and has
\* no Missing entry.
C4_Swap_Original ==
    \A a, b \in Names :
        Swapped(a, b) =>
            /\ Len(FileEntries(result.report)) = 2
            /\ \A i \in DOMAIN FileEntries(result.report) :
                   FileEntries(result.report)[i].kind = "renamed"

\* C4 (amended): after a swap the report is two Modified entries, one per
\* file (in either order), each from the stored digest to the other file's
\* digest, and has no Renamed and no Missing entry.
C4_Swap ==
    \A a, b \in Names :
        Swapped(a, b) =>
            LET ma == [kind |-> "modified", file |-> a,
                       from |-> StoredMd5(a), to |-> StoredMd5(b)]
                mb == [kind |-> "modified", file |-> b,
                       from |-> StoredMd5(b), to |-> StoredMd5(a)]
            IN  ReportIs(<<ma, mb>>) \/ ReportIs(<<mb, ma>>)

C4_Witness ==
    \E a, b \in Names :
        /\ Swapped(a, b)
        /\ result.outcome = "raised"
        /\ Len(result.report) = 2

\* Since the capture the stored file n was deleted, no current file has its
\* digest, and nothing else changed.
Deleted(n) ==
    /\ Verified /\ SameExclusions
    /\ n \in StoredNames
    /\ files = [captured.files EXCEPT ![n] = Absent]
    /\ Sharing(StoredMd5(n)) = {}

\* C5: after the deletion of one stored file whose digest no current file
\* has, the report is exactly one Missing entry for that file.
C5_Deletion ==
    \A n \in Names :
        Deleted(n) => ReportIs(<<[kind |-> "missing", file |-> n]>>)

C5_Witness ==
    \E n \in Names :
        /\ Deleted(n)
        /\ Cardinality(StoredNames) >= 2
        /\ result.outcome = "raised"
        /\ Len(result.report) = 1

\* C6: a stored entry whose name is in the current filtered file set gets a
\* Modified entry exactly when its current digest differs from the stored
\* one, and never a Renamed or a Missing entry.
C6_Modification ==
    Verified =>
        \A n \in StoredNames \cap DOMAIN CurrentMd5 :
            /\ (Entry("modified", n) # {}) <=> (CurrentMd5[n] # StoredMd5(n))
            /\ Cardinality(Entry("modified", n)) <= 1
            /\ Entry("renamed", n) = {}
            /\ Entry("missing", n) = {}

C6_Witness ==
    /\ Verified
    /\ \E n \in StoredNames \cap DOMAIN CurrentMd5 :
          /\ Entry("modified", n) # {}
          /\ Sharing(StoredMd5(n)) # {}
    /\ \E n \in StoredNames \cap DOMAIN CurrentMd5 : Entry("modified", n) = {}

\* The files added since the capture.
AddedFiles == {n \in Names : captured.files[n] = Absent /\ files[n] # Absent}

\* Since the capture files were added and every file of the capture kept its
\* name and bytes.
OnlyAdditions ==
    /\ Verified /\ SameExclusions
    /\ AddedFiles # {}
    /\ \A n \in Names : captured.files[n] # Absent => files[n] = captured.files[n]

\* C7: files added since the capture are not drift: with every stored file
\* unchanged the report is empty, and every per-file entry of any report is
\* about a file named in the stored snapshot.
C7_AdditionsNotDrift ==
    /\ OnlyAdditions => (ReportIs(<<>>) /\ (NoHeaderMismatch => result.outcome = "ok"))
    /\ Verified => \A i \in DOMAIN result.report :
                       result.report[i].kind \in FileKinds
                           => result.report[i].file \in StoredNames

C7_Witness ==
    /\ OnlyAdditions
    /\ NoHeaderMismatch
    /\ result.outcome = "ok"
    /\ Cardinality(AddedFiles \cap DOMAIN CurrentMd5) >= 2
    /\ \E n \in AddedFiles, m \in StoredNames :
          n \in DOMAIN CurrentMd5 /\ CurrentMd5[n] = StoredMd5(m)

\* Some discrepancy exists between the stored snapshot and the call.
Discrepancy ==
    \/ sidecar.uuid # result.call.uuid
    \/ sidecar.folder_path # result.call.dataset_folder
    \/ \E n \in StoredNames :
          n \notin DOMAIN CurrentMd5 \/ CurrentMd5[n] # StoredMd5(n)

\* C8: check_json_metadata returns normally exactly when there is no
\* discrepancy and the report is empty; otherwise it raises, and the
\* exception's message carries every entry of the report.
C8_Verdict ==
    Verified =>
        /\ (result.outcome = "ok") <=> ~Discrepancy
        /\ (result.outcome = "ok") <=> (result.report = <<>>)
        /\ result.outcome = "raised" => result.message = result.report

C8_Witness ==
    /\ result.outcome = "raised"
    /\ Len(result.report) >= 3
    /\ result.message = result.report

\* C9: a step that delivers a verification outcome leaves the sidecar as it
\* was, and the sidecar changes only in a write_json_metadata step.
C9_VerifyKeepsSidecar ==
    [][/\ result' # NoResult => sidecar' = sidecar
       /\ sidecar' # sidecar =>
            /\ captured'.called
            /\ result' = NoResult
            /\ sidecar' = metadata_dict_of(captured'.call.uuid,
                                           captured'.call.dataset_folder,
                                           captured'.call.excluded_extensions,
                                           files)]_vars

C9_Witness ==
    /\ result.outcome = "raised"
    /\ sidecar.exists
    /\ sidecar.files # <<>>
    /\ ~Unmodified

\* ======================================================================
\* Properties of the record creator
\* ======================================================================
\* The identifier the attribute store held when the run read it.
StoreUuidRead == get_metadata(metadata_object, <<"NetCDF", "uuid">>)

\* The sidecar is readable and holds a non-empty identifier.
SidecarHoldsUuid ==
    /\ sidecar.exists
    /\ "corrupt" \notin DOMAIN sidecar
    /\ "uuid" \in DOMAIN sidecar
    /\ truthy(sidecar.uuid)

ChosenUuid == get_metadata(metadata_object, <<"Calculated", "UUID">>)

\* C10 (as claimed): the identifier chosen is the attribute store's if it
\* holds one, otherwise the sidecar's if the sidecar is readable and holds a
\* non-empty one, otherwise a newly generated one; a generated one is never
\* chosen while the sidecar holds one.
C10_UuidPreference ==
    pc = "uuid" =>
        /\ truthy(StoreUuidRead) => ChosenUuid = StoreUuidRead
        /\ (~truthy(StoreUuidRead) /\ SidecarHoldsUuid) => ChosenUuid = sidecar.uuid
        /\ (~truthy(StoreUuidRead) /\ ~SidecarHoldsUuid) => ChosenUuid \in GeneratedUuids

\* The value of an attribute of an attribute store, None when it has none.
AttrOf(ds, name) == IF name \in DOMAIN ds THEN ds[name] ELSE None

\* How often the run has set and synced the attribute.
Writes(name) ==
    Cardinality({i \in DOMAIN run.writes : run.writes[i].attribute = name})

Calculated(field) == get_metadata(metadata_object, <<"Calculated", field>>)

\* The run has got past line 197.
UuidResolved ==
    "Calculated" \in DOMAIN metadata_object
        /\ "UUID" \in DOMAIN metadata_object["Calculated"]

\* The run has got past lines 199-202, with or without an exception.
DoiStepTaken ==
    "Calculated" \in DOMAIN metadata_object
        /\ "DOI" \in DOMAIN metadata_object["Calculated"]

\* C11: in one run the dataset identifier is written to the attribute store
\* exactly once if it came from the sidecar or was generated, and not at all
\* if the attribute store already held one; afterwards the attribute store's
\* identifier is the Calculated UUID.
C11_UuidWriteBack ==
    /\ Writes("uuid") <= 1
    /\ ~UuidResolved => Writes("uuid") = 0
    /\ UuidResolved =>
          /\ Writes("uuid") = IF truthy(AttrOf(run.before, "uuid")) THEN 0 ELSE 1
          /\ AttrOf(netcdf_dataset, "uuid") = Calculated("UUID")
          /\ Writes("uuid") = 1 =>
                \E i \in DOMAIN run.writes :
                    run.writes[i] = [attribute |-> "uuid", value |-> Calculated("UUID")]

C11_Witness ==
    /\ pc = "done"
    /\ ~truthy(AttrOf(run.before, "uuid"))
    /\ SidecarHoldsUuid
    /\ Writes("uuid") = 1
    /\ AttrOf(netcdf_dataset, "uuid") = sidecar.uuid
    /\ xml_output.UUID = sidecar.uuid

\* C12: the DOI attribute is written in a run exactly when the attribute
\* store held no DOI, minting succeeded and the mode is production, and then
\* once; a DOI already present is used as it is without calling the minting
\* service; in another mode a minted DOI is never written.
C12_DoiPersistence ==
    pc # "idle" =>
        /\ Writes("doi") =
              IF ~truthy(AttrOf(run.before, "doi")) /\ run.minter = "minted"
                    /\ doi_minting_mode = "prod"
              THEN 1 ELSE 0
        /\ truthy(AttrOf(run.before, "doi")) =>
              /\ run.minter = "not called"
              /\ DoiStepTaken => Calculated("DOI") = AttrOf(run.before, "doi")
        /\ doi_minting_mode # "prod" =>
              AttrOf(netcdf_dataset, "doi") = AttrOf(run.before, "doi")
        /\ Writes("doi") = 1 => AttrOf(netcdf_dataset, "doi") = Calculated("DOI")

C12_Witness ==
    /\ pc = "done"
    /\ doi_minting_mode = "prod"
    /\ run.minter = "minted"
    /\ Writes("doi") = 1
    /\ AttrOf(netcdf_dataset, "doi") = "http://dx.doi.org/10.1/m1"
    /\ AttrOf(run.before, "doi") = ""

\* The identifier attributes of an attribute store.
Identity(ds) == [a \in {"survey_id", "uuid", "doi"} |-> AttrOf(ds, a)]

\* C13 (as claimed): a run that fails at any step leaves the identifier
\* attributes of the attribute store as they were before the run.
C13_NoPartialIdentity ==
    pc = "failed" => Identity(netcdf_dataset) = Identity(run.before)

\* The attribute store held survey identifiers before the run and the tree
\* holds the registry's, both of them lists of numbers.
BothSurveyIds ==
    /\ pc \notin {"idle", "created", "loaded", "netcdf", "survey"}
    /\ run.failed_at # "get_template"
    /\ AttrOf(run.before, "survey_id") # None
    /\ int_list(AttrOf(run.before, "survey_id")).ok
    /\ get_metadata(metadata_object, <<"Survey", "SURVEYID">>) # None
    /\ int_list(get_metadata(metadata_object, <<"Survey", "SURVEYID">>)).ok

SurveyIdsAgree ==
    int_list(AttrOf(run.before, "survey_id")).value
        = int_list(get_metadata(metadata_object, <<"Survey", "SURVEYID">>)).value

\* C14 (as claimed): when the survey identifiers of the attribute store and
\* of the registry are both present and differ as sets, a warning reports
\* it and the attribute store keeps its own; when they are equal nothing is
\* written.
C14_SurveyIdConsistency ==
    BothSurveyIds =>
        /\ Writes("survey_id") = 0
        /\ AttrOf(netcdf_dataset, "survey_id") = AttrOf(run.before, "survey_id")
        /\ ~SurveyIdsAgree => "Survey ID inconsistent" \in warnings

\* C15 (as claimed): when acquiring a DOI fails, at the placeholder
\* template, in the minting call or by the service's refusal,
\* populate_template_values goes on, the Calculated DOI is None, the DOI
\* attribute is not written and a warning is recorded.
C15_MintingFailureNotFatal ==
    run.minter \in {"template failed", "raised", "refused"} =>
        /\ run.failed_at # "placeholder template"
        /\ Calculated("DOI") = None
        /\ Writes("doi") = 0
        /\ warnings \cap {"WARNING: DOI minting failed",
                          "WARNING: Error minting DOI"} # {}

\* C16 (as claimed): no derivation of populate_template_values raises, and
\* a derived field that cannot be computed is the 'unknown' sentinel.
C16_DerivedSentinels ==
    /\ run.failed_at # "spatial extent"
    /\ pc = "derived" =>
          \A f \in {"WLON", "SLAT", "ELON", "NLAT", "START_DATE", "END_DATE",
                    "YEAR", "CONVERSION_DATETIME"} :
              /\ f \in DOMAIN metadata_object["Calculated"]
              /\ Calculated(f) # None

\* C19 (as claimed): when both the registry read and the database read fail
\* the run goes on and the attribute store's survey_id is left as it was.
C19_SurveyIdLeftAlone ==
    (run.survey = "failed" /\ pc # "survey") =>
        /\ Writes("survey_id") = 0
        /\ AttrOf(netcdf_dataset, "survey_id") = AttrOf(run.before, "survey_id")

\* Both merged fragments are of the same category and define field x, with
\* different values.
BothDefine(x) ==
    /\ Len(merged) = 2
    /\ merged[1].category = merged[2].category
    /\ x \in DOMAIN merged[1].metadata_dict /\ x \in DOMAIN merged[2].metadata_dict
    /\ merged[1].metadata_dict[x] # None /\ merged[2].metadata_dict[x] # None
    /\ merged[1].metadata_dict[x] # merged[2].metadata_dict[x]

\* C17: of two fragments merged into an empty root that both define a field
\* with different values, the first merged wins with overwrite=false for
\* the second merge, whichever of the two is merged first, and the second
\* wins with overwrite=true.
C17_FirstWriterWins ==
    \A x \in MergeFields :
        BothDefine(x) =>
            get_metadata(metadata_object, <<merged[1].category, x>>)
                = IF merged[2].overwrite THEN merged[2].metadata_dict[x]
                  ELSE merged[1].metadata_dict[x]

C17_Witness ==
    /\ BothDefine("X")
    /\ ~merged[2].overwrite
    /\ merged[1].metadata_dict["X"] = "b"
    /\ merged[2].metadata_dict["X"] = "a"
    /\ get_metadata(metadata_object, <<merged[1].category, "X">>) = "b"

\* The entries of xml2nc_mapping for attribute k whose path resolves.
Resolving(k) ==
    {i \in DOMAIN xml2nc_mapping :
        xml2nc_mapping[i][1] = k
            /\ xml_get_metadata(xml_metadata, xml2nc_mapping[i][2]) # None}

FirstResolving(k) == CHOOSE i \in Resolving(k) : \A j \in Resolving(k) : i <= j

NoValueFound(k) ==
    \E w \in warnings :
        w.message = "No value found for metadata attribute(s)" /\ k \in w.about

\* What the searchlist says of attribute k after a completed call.
Searchlist(k) ==
    IF Resolving(k) # {}
    THEN /\ AttrOf(netcdf_dataset, k)
              = xml_get_metadata(xml_metadata, xml2nc_mapping[FirstResolving(k)][2])
         /\ ~NoValueFound(k)
    ELSE /\ AttrOf(netcdf_dataset, k) = AttrOf(run.before, k)
         /\ NoValueFound(k)

\* C18 (as claimed): after set_netcdf_metadata_attributes every attribute
\* named in xml2nc_mapping has the value of the earliest entry for it that
\* resolves, or is unchanged and named in the 'No value found' warning when
\* none resolves.
C18_Searchlist_Original ==
    pc = "set" =>
        \A i \in DOMAIN xml2nc_mapping : Searchlist(xml2nc_mapping[i][1])

\* The attributes set_netcdf_metadata_attributes sets before the mapping
\* loop, and those it sets, reduces or deletes after it.
GeospatialAttributes ==
    {"geospatial_lon_min", "geospatial_lat_min", "geospatial_lon_max",
     "geospatial_lat_max", "geospatial_lon_resolution", "geospatial_lat_resolution",
     "geospatial_lon_units", "geospatial_lat_units", "geospatial_bounds",
     "geospatial_bounds_crs"}
AfterLoopAttributes ==
    {"doi", "metadata_link", "Conventions", "id", "ga_uuid", "keywords_vocabulary"}

\* C18 (amended): the same for every attribute named in xml2nc_mapping
\* other than those the function sets, reduces or deletes after the loop,
\* an attribute with no resolving entry being unchanged unless it is one of
\* the geospatial attributes set before the loop; and the 'No value found'
\* warning names exactly the names with no resolving entry.
C18_Searchlist ==
    pc = "set" =>
        \A i \in DOMAIN xml2nc_mapping :
            LET k == xml2nc_mapping[i][1]
            IN  /\ NoValueFound(k) <=> Resolving(k) = {}
                /\ (k \notin AfterLoopAttributes /\ Resolving(k) # {}) =>
                      Searchlist(k)
                /\ (k \notin AfterLoopAttributes \cup GeospatialAttributes
                        /\ Resolving(k) = {}) => Searchlist(k)

C18_Witness ==
    /\ pc = "set"
    /\ xml2nc_mapping = <<<<"title", "c">>, <<"summary", "a/b">>, <<"title", "a/b">>>>
    /\ xml_get_metadata(xml_metadata, "c") = "v2"
    /\ xml_get_metadata(xml_metadata, "a/b") = "v1"
    /\ AttrOf(run.before, "title") = "old title"
    /\ AttrOf(netcdf_dataset, "title") = "v2"
    /\ AttrOf(netcdf_dataset, "summary") = "v1"
\* C20 (as claimed): after any sequence of update_nc_metadata runs, whether
\* they complete or fail, the snapshot's digest of every listed file is the
\* file's current digest, and check_json_metadata reports no Modified entry.
C20_SnapshotInStep ==
    /\ sidecar.exists =>
          \A i \in DOMAIN sidecar.files :
              /\ files[sidecar.files[i].file] # Absent
              /\ sidecar.files[i].md5 = hash_bytestr_iter(files[sidecar.files[i].file])
    /\ Verified =>
          \A i \in DOMAIN result.report : result.report[i].kind # "modified"
====
